---- MODULE Spec2Model ----
(***************************************************************************)
(* Model of the GreedyBear feed engine (api/views/utils.py):               *)
(* FeedRequestParams, get_valid_feed_types, get_queryset, feeds_response.  *)
(*                                                                         *)
(* Enumerated strings (feed types, orderings, formats) are TLA+ strings;   *)
(* strings the code parses (split(";"), int()) are sequences of            *)
(* one-character strings.                                                  *)
(***************************************************************************)
EXTENDS Integers, Sequences, FiniteSets, TLC

VARIABLES
    iocStore,              \* ids of the IOC rows present in the record store
    SKIP_FEED_VALIDATION,  \* greedybear.settings.SKIP_FEED_VALIDATION
    pc,                    \* position of the request being served
    query_params,          \* raw request parameters (a dict: function on the present keys)
    feed_params,           \* the FeedRequestParams instance
    legacy_age,            \* age token given to set_legacy_age ("none" when not called)
    valid_feed_types,      \* result of get_valid_feed_types()
    remote_addr,           \* request.META["REMOTE_ADDR"]
    order_by_arg,          \* argument of the order_by call issued to the store
    iocs,                  \* the record cursor returned by get_queryset (sequence of ids)
    statistics,            \* rows of the Statistics table, in insertion order
    save_failed,           \* whether Statistics.save raised in the current request
    verbose,               \* the verbose argument of feeds_response
    validated,             \* items handed to FeedsResponseSerializer in the current response
    response,              \* outcome of the request
    served                 \* number of requests started so far

vars == <<iocStore, SKIP_FEED_VALIDATION, pc, query_params, feed_params, legacy_age,
          valid_feed_types, remote_addr, order_by_arg, iocs, statistics, save_failed,
          verbose, validated, response, served>>

----------------------------------------------------------------------------
(* Bounds *)

MaxStore == 3
MaxLen == 3
MaxRequests == 2

----------------------------------------------------------------------------
(* Strings *)

Chars == {"a", "b", ";"}

RECURSIVE SeqsUpTo(_)
SeqsUpTo(n) ==
    IF n = 0 THEN {<<>>}
    ELSE LET shorter == SeqsUpTo(n - 1)
         IN shorter \cup {Append(s, c) : s \in {t \in shorter : Len(t) = n - 1}, c \in Chars}

\* str.lower() on the strings the requests and the registry use
Lower(s) ==
    CASE s = "ALL" -> "all"
      [] s = "Log4j" -> "log4j"
      [] s = "Cowrie" -> "cowrie"
      [] s = "Heralding" -> "heralding"
      [] s = "Ciscoasa" -> "ciscoasa"
      [] s = "Dionaea" -> "dionaea"
      [] s = "JSON" -> "json"
      [] s = "TXT" -> "txt"
      [] s = "CSV" -> "csv"
      [] s = "Feed_Type" -> "feed_type"
      [] s = "-Feed_Type" -> "-feed_type"
      [] s = "-Last_Seen" -> "-last_seen"
      [] s = "Value" -> "value"
      [] OTHER -> s

\* str.replace("value", "name") on the ordering strings
ReplaceValueByName(s) ==
    CASE s = "value" -> "name"
      [] s = "-value" -> "-name"
      [] OTHER -> s

\* the split that forgets the last piece: "a;" gives ["a"]
RECURSIVE SplitDropEmpty(_, _)
SplitDropEmpty(s, sep) ==
    IF s = <<>> THEN <<>>
    ELSE LET idx == {i \in 1..Len(s) : s[i] = sep}
         IN IF idx = {} THEN <<s>>
            ELSE LET i == CHOOSE j \in idx : \A k \in idx : j <= k
                 IN <<SubSeq(s, 1, i - 1)>> \o SplitDropEmpty(SubSeq(s, i + 1, Len(s)), sep)

\* str.split(sep): the pieces between the separators; the empty string gives [""]
RECURSIVE Split(_, _)
Split(s, sep) ==
    LET idx == {i \in 1..Len(s) : s[i] = sep}
    IN IF idx = {} THEN <<s>>
       ELSE LET i == CHOOSE j \in idx : \A k \in idx : j <= k
            IN <<SubSeq(s, 1, i - 1)>> \o Split(SubSeq(s, i + 1, Len(s)), sep)

DigitValue(c) ==
    CASE c = "0" -> 0 [] c = "1" -> 1 [] c = "2" -> 2 [] c = "3" -> 3 [] c = "4" -> 4
      [] c = "5" -> 5 [] c = "6" -> 6 [] c = "7" -> 7 [] c = "8" -> 8 [] c = "9" -> 9

\* int(s) for a string of decimal digits
RECURSIVE int(_)
int(s) ==
    IF Len(s) = 1 THEN DigitValue(s[1])
    ELSE 10 * int(SubSeq(s, 1, Len(s) - 1)) + DigitValue(s[Len(s)])

----------------------------------------------------------------------------
(* FeedRequestParams *)

\* dict.get(key, default)
Get(d, key, default) == IF key \in DOMAIN d THEN d[key] ELSE default

FeedRequestParams(qp) ==
    [feed_type |-> Lower(Get(qp, "feed_type", "all")),
     attack_type |-> Lower(Get(qp, "attack_type", "all")),
     max_age |-> Get(qp, "max_age", <<"3">>),
     min_days_seen |-> Get(qp, "min_days_seen", <<"1">>),
     include_reputation |->
         IF "include_reputation" \in DOMAIN qp THEN Split(qp["include_reputation"], ";") ELSE <<>>,
     exclude_reputation |->
         IF "exclude_reputation" \in DOMAIN qp THEN Split(qp["exclude_reputation"], ";") ELSE <<>>,
     feed_size |-> Get(qp, "feed_size", <<"5", "0", "0", "0">>),
     ordering |-> ReplaceValueByName(Lower(Get(qp, "ordering", "-last_seen"))),
     verbose |-> Lower(Get(qp, "verbose", "false")),
     paginate |-> Lower(Get(qp, "paginate", "false")),
     format |-> Lower(Get(qp, "format_", "json"))]

\* "feed_type" in self.ordering (substring test)
ContainsFeedType(ordering) == ordering \in {"feed_type", "-feed_type"}

\* In the "persistent" case the source line
\*     self.min_days_seen: "10"
\* is an annotation, not an assignment: min_days_seen keeps its value.
set_legacy_age(self, age) ==
    CASE age = "recent" ->
            [self EXCEPT !.max_age = <<"3">>,
                         !.min_days_seen = <<"1">>,
                         !.ordering = IF ContainsFeedType(@) THEN "-last_seen" ELSE @]
      [] age = "persistent" ->
            [self EXCEPT !.max_age = <<"1", "4">>,
                         !.ordering = IF ContainsFeedType(@) THEN "-attack_count" ELSE @]
      [] OTHER -> self

----------------------------------------------------------------------------
(* The record store: GeneralHoneypot and IOC rows *)

\* GeneralHoneypot rows: Heralding and Dionaea are active, Ciscoasa is not
GeneralHoneypot ==
    <<[name |-> "Heralding", active |-> TRUE],
      [name |-> "Ciscoasa", active |-> FALSE],
      [name |-> "Dionaea", active |-> TRUE]>>

HoneypotActive(n) == \E k \in 1..Len(GeneralHoneypot) :
                        GeneralHoneypot[k].name = n /\ GeneralHoneypot[k].active

\* datetime.utcnow(), in days
utcnow == 100

\* The IOC rows a store may hold.  general_honeypot lists the memberships in
\* the order general_honeypot.all() yields them; last_seen is a day number.
IOCTable ==
    <<[name |-> "10.0.0.1", log4j |-> TRUE, cowrie |-> FALSE, scanner |-> TRUE,
       payload_request |-> FALSE, general_honeypot |-> <<>>,
       last_seen |-> 99, number_of_days_seen |-> 2, ip_reputation |-> <<>>,
       attack_count |-> 5],
      [name |-> "10.0.0.2", log4j |-> TRUE, cowrie |-> TRUE, scanner |-> TRUE,
       payload_request |-> TRUE, general_honeypot |-> <<"Heralding">>,
       last_seen |-> 98, number_of_days_seen |-> 12, ip_reputation |-> <<"a">>,
       attack_count |-> 9],
      [name |-> "10.0.0.3", log4j |-> FALSE, cowrie |-> FALSE, scanner |-> TRUE,
       payload_request |-> FALSE, general_honeypot |-> <<"Ciscoasa">>,
       last_seen |-> 99, number_of_days_seen |-> 12, ip_reputation |-> <<>>,
       attack_count |-> 3],
      [name |-> "10.0.0.4", log4j |-> TRUE, cowrie |-> FALSE, scanner |-> FALSE,
       payload_request |-> TRUE, general_honeypot |-> <<"Ciscoasa">>,
       last_seen |-> 99, number_of_days_seen |-> 12, ip_reputation |-> <<"b">>,
       attack_count |-> 5],
      [name |-> "10.0.0.5", log4j |-> FALSE, cowrie |-> FALSE, scanner |-> TRUE,
       payload_request |-> FALSE, general_honeypot |-> <<"Dionaea", "Heralding">>,
       last_seen |-> 90, number_of_days_seen |-> 1, ip_reputation |-> <<"b">>,
       attack_count |-> 5],
      [name |-> "10.0.0.6", log4j |-> FALSE, cowrie |-> FALSE, scanner |-> FALSE,
       payload_request |-> FALSE, general_honeypot |-> <<>>,
       last_seen |-> 99, number_of_days_seen |-> 1, ip_reputation |-> <<"a">>,
       attack_count |-> 1],
      [name |-> "10.0.0.7", log4j |-> FALSE, cowrie |-> FALSE, scanner |-> TRUE,
       payload_request |-> FALSE, general_honeypot |-> <<"Dionaea", "Heralding", "Ciscoasa">>,
       last_seen |-> 98, number_of_days_seen |-> 10, ip_reputation |-> <<>>,
       attack_count |-> 5],
      [name |-> "10.0.0.8", log4j |-> FALSE, cowrie |-> TRUE, scanner |-> TRUE,
       payload_request |-> FALSE, general_honeypot |-> <<"Heralding">>,
       last_seen |-> 97, number_of_days_seen |-> 14, ip_reputation |-> <<"a">>,
       attack_count |-> 0]>>

IOCIds == 1..Len(IOCTable)

Range(s) == {s[k] : k \in 1..Len(s)}

get_valid_feed_types ==
    {"log4j", "cowrie", "all"}
        \cup {Lower(GeneralHoneypot[k].name) : k \in {j \in 1..Len(GeneralHoneypot) :
                                                        GeneralHoneypot[j].active}}

----------------------------------------------------------------------------
(* get_queryset *)

\* FeedsRequestSerializer.is_valid: membership of feed_type in the valid set,
\* attack-type and format enums, numeric fields, ordering whitelist
IsDigits(s) == Len(s) >= 1 /\ \A k \in 1..Len(s) : s[k] \in {"0", "1", "2", "3", "4", "5", "6", "7", "8", "9"}

OrderingWhitelist ==
    {"name", "-name", "last_seen", "-last_seen", "attack_count", "-attack_count",
     "feed_type", "-feed_type"}

FeedsRequestSerializerValid(fp, valid_types) ==
    /\ fp.feed_type \in valid_types
    /\ fp.attack_type \in {"scanner", "payload_request", "all"}
    /\ IsDigits(fp.max_age) /\ IsDigits(fp.min_days_seen)
    /\ IsDigits(fp.feed_size) /\ int(fp.feed_size) >= 1
    /\ fp.ordering \in OrderingWhitelist
    /\ fp.verbose \in {"true", "false"}
    /\ fp.paginate \in {"true", "false"}
    /\ fp.format \in {"json", "csv", "txt"}

\* the fields of the IOC model the store can sort on; feed_type is not one
IOCOrderFields == {"name", "last_seen", "attack_count"}

OrderingField(ordering) ==
    CASE ordering = "-name" -> "name"
      [] ordering = "-last_seen" -> "last_seen"
      [] ordering = "-attack_count" -> "attack_count"
      [] ordering = "-feed_type" -> "feed_type"
      [] OTHER -> ordering

OrderingDescending(ordering) == ordering \in {"-name", "-last_seen", "-attack_count", "-feed_type"}

\* sort key of a row; names sort as their ids do
OrderKey(field, i) ==
    CASE field = "name" -> i
      [] field = "last_seen" -> IOCTable[i].last_seen
      [] field = "attack_count" -> IOCTable[i].attack_count

\* exclude(general_honeypot__active=False): rows with any inactive membership
ExcludedInactive(i) ==
    \E k \in 1..Len(IOCTable[i].general_honeypot) : ~HoneypotActive(IOCTable[i].general_honeypot[k])

\* exclude(ip_reputation__in=exclude_reputation)
ExcludedReputation(i, fp) == IOCTable[i].ip_reputation \in Range(fp.exclude_reputation)

\* filter(**query_dict), query_dict built at lines 122-136
FeedTypeFilter(i, fp) ==
    IF fp.feed_type # "all"
    THEN CASE fp.feed_type = "log4j" -> IOCTable[i].log4j
           [] fp.feed_type = "cowrie" -> IOCTable[i].cowrie
           [] OTHER -> \E k \in 1..Len(IOCTable[i].general_honeypot) :
                          Lower(IOCTable[i].general_honeypot[k]) = Lower(fp.feed_type)
    ELSE TRUE

AttackTypeFilter(i, fp) ==
    IF fp.attack_type # "all"
    THEN CASE fp.attack_type = "scanner" -> IOCTable[i].scanner
           [] fp.attack_type = "payload_request" -> IOCTable[i].payload_request
    ELSE TRUE

\* the comparison of last_seen made strict
AgeFilterStrictlyNewer(i, fp) ==
    /\ IOCTable[i].last_seen > utcnow - int(fp.max_age)
    /\ IOCTable[i].number_of_days_seen >= int(fp.min_days_seen)

AgeFilter(i, fp) ==
    /\ IOCTable[i].last_seen >= utcnow - int(fp.max_age)
    /\ IOCTable[i].number_of_days_seen >= int(fp.min_days_seen)

IncludeReputationFilter(i, fp) ==
    IF fp.include_reputation # <<>>
    THEN IOCTable[i].ip_reputation \in Range(fp.include_reputation)
    ELSE TRUE

QueryRows(store, fp) ==
    {i \in store : /\ ~ExcludedInactive(i)
                   /\ ~ExcludedReputation(i, fp)
                   /\ FeedTypeFilter(i, fp)
                   /\ AttackTypeFilter(i, fp)
                   /\ AgeFilter(i, fp)
                   /\ IncludeReputationFilter(i, fp)}

\* row i may come before row j under the ordering
OrderedBefore(ordering, i, j) ==
    IF OrderingDescending(ordering)
    THEN OrderKey(OrderingField(ordering), i) >= OrderKey(OrderingField(ordering), j)
    ELSE OrderKey(OrderingField(ordering), i) <= OrderKey(OrderingField(ordering), j)

\* the orders the store may return the rows in: rows with equal keys come in any order
OrderBy(rows, ordering) ==
    {s \in [1..Cardinality(rows) -> rows] :
        /\ \A a, b \in 1..Cardinality(rows) : a # b => s[a] # s[b]
        /\ \A a, b \in 1..Cardinality(rows) : a < b => OrderedBefore(ordering, s[a], s[b])}

\* queryset[:n]
Slice(s, n) == SubSeq(s, 1, IF n < Len(s) THEN n ELSE Len(s))

----------------------------------------------------------------------------
(* feeds_response *)

FEEDS_LICENSE == "https://github.com/honeynet/GreedyBear/blob/main/FEEDS_LICENSE.md"

license_text == <<"# These feeds are generated by The Honeynet Project once every 10 minutes and are protected by the following license: ", FEEDS_LICENSE>>

\* Echo.write returns the value it is given
EchoWrite(value) == value

\* "\n".join(lines): the lines with a newline between neighbours
RECURSIVE Join(_)
Join(lines) ==
    IF Len(lines) = 0 THEN <<>>
    ELSE IF Len(lines) = 1 THEN <<lines[1]>>
    ELSE <<lines[1], "\n">> \o Join(Tail(lines))

\* csv.writer(...).writerow(row) with QUOTE_NONE: the fields, comma separated,
\* and the line terminator, handed to the buffer's write
WriteRow(row) ==
    EchoWrite([k \in 1..(2 * Len(row)) |->
                  IF k = 2 * Len(row) THEN "\r\n"
                  ELSE IF k % 2 = 1 THEN row[(k + 1) \div 2] ELSE ","])

\* the text body without its license line
TxtBodyNoLicense(cursor) == Join([k \in 1..Len(cursor) |-> IOCTable[cursor[k]].name])

TxtBody(cursor) == Join(<<license_text>> \o [k \in 1..Len(cursor) |-> IOCTable[cursor[k]].name])

CsvBody(cursor) ==
    LET rows == <<(<<license_text>>)>> \o [k \in 1..Len(cursor) |-> <<IOCTable[cursor[k]].name>>]
    IN [k \in 1..Len(rows) |-> WriteRow(rows[k])]

\* the record has something the label can be taken from (lines 203-209)
Classifiable(i, fp) ==
    \/ fp.feed_type \notin {"all", "log4j", "cowrie"}
    \/ IOCTable[i].log4j
    \/ IOCTable[i].cowrie
    \/ Len(IOCTable[i].general_honeypot) >= 1

\* the cowrie flag looked at before the log4j flag
IocFeedTypeCowrieFirst(i, fp) ==
    IF fp.feed_type \notin {"all", "log4j", "cowrie"}
    THEN fp.feed_type
    ELSE IF IOCTable[i].cowrie THEN "cowrie"
    ELSE IF IOCTable[i].log4j THEN "log4j"
    ELSE Lower(IOCTable[i].general_honeypot[1])

\* ioc_feed_type of lines 200-209
IocFeedType(i, fp) ==
    IF fp.feed_type \notin {"all", "log4j", "cowrie"}
    THEN fp.feed_type
    ELSE IF IOCTable[i].log4j THEN "log4j"
    ELSE IF IOCTable[i].cowrie THEN "cowrie"
    ELSE Lower(IOCTable[i].general_honeypot[1])

\* data_ of lines 210-229
RenderItem(i, fp, verb) ==
    LET label == IocFeedType(i, fp)
        data == [value |-> IOCTable[i].name,
                 scanner |-> IOCTable[i].scanner,
                 payload_request |-> IOCTable[i].payload_request,
                 last_seen |-> IOCTable[i].last_seen,
                 attack_count |-> IOCTable[i].attack_count,
                 feed_type |-> label,
                 ip_reputation |-> IOCTable[i].ip_reputation]
    IN IF verb
       THEN [value |-> data.value, scanner |-> data.scanner,
             payload_request |-> data.payload_request, last_seen |-> data.last_seen,
             attack_count |-> data.attack_count, feed_type |-> data.feed_type,
             ip_reputation |-> data.ip_reputation,
             honeypots |-> IF label \in {"log4j", "cowrie"}
                           THEN Append(IOCTable[i].general_honeypot, label)
                           ELSE IOCTable[i].general_honeypot]
       ELSE data

\* FeedsResponseSerializer.is_valid on a rendered item
FeedsResponseSerializerValid(item, valid_types) ==
    /\ item.feed_type \in valid_types
    /\ item.attack_count >= 1

\* the verbose argument forgotten
ValidatesUnlessSkip(skip, verb) == ~skip

\* whether the loop of lines 199-239 validates the item
ValidatesItems(skip, verb) == ~(skip \/ verb)

\* The loop of lines 199-239 over the cursor, item by item: the list built so far,
\* the items validated so far, and how the loop ended.
RECURSIVE RenderLoop(_, _, _, _, _, _, _)
RenderLoop(cursor, k, fp, valid_types, skip, verb, acc) ==
    IF k > Len(cursor) THEN [status |-> "ok", json_list |-> acc.json_list, validated |-> acc.validated]
    ELSE IF ~Classifiable(cursor[k], fp)
    THEN [status |-> "IndexError", json_list |-> acc.json_list, validated |-> acc.validated]
    ELSE LET item == RenderItem(cursor[k], fp, verb)
         IN IF ~ValidatesItems(skip, verb)
            THEN RenderLoop(cursor, k + 1, fp, valid_types, skip, verb,
                            [json_list |-> Append(acc.json_list, item), validated |-> acc.validated])
            ELSE IF ~FeedsResponseSerializerValid(item, valid_types)
            THEN [status |-> "ItemValidationError", json_list |-> acc.json_list,
                  validated |-> Append(acc.validated, item)]
            ELSE RenderLoop(cursor, k + 1, fp, valid_types, skip, verb,
                            [json_list |-> Append(acc.json_list, item),
                             validated |-> Append(acc.validated, item)])

\* order of the labels as Python compares strings
LabelRank(label) ==
    CASE label = "cowrie" -> 1
      [] label = "dionaea" -> 2
      [] label = "heralding" -> 3
      [] label = "log4j" -> 4

\* sorted(json_list, key=feed_type, reverse=...): a stable insertion of each item
RECURSIVE InsertSorted(_, _, _)
InsertSorted(sorted, item, reverse) ==
    IF sorted = <<>> THEN <<item>>
    ELSE LET last == sorted[Len(sorted)]
             stays == IF reverse
                      THEN LabelRank(last.feed_type) >= LabelRank(item.feed_type)
                      ELSE LabelRank(last.feed_type) <= LabelRank(item.feed_type)
         IN IF stays THEN Append(sorted, item)
            ELSE Append(InsertSorted(SubSeq(sorted, 1, Len(sorted) - 1), item, reverse), last)

RECURSIVE SortedByFeedType(_, _)
SortedByFeedType(json_list, reverse) ==
    IF json_list = <<>> THEN <<>>
    ELSE InsertSorted(SortedByFeedType(SubSeq(json_list, 1, Len(json_list) - 1), reverse),
                      json_list[Len(json_list)], reverse)

\* lines 241-250
FinalList(json_list, ordering) ==
    LET sorted_list == CASE ordering = "feed_type" -> SortedByFeedType(json_list, FALSE)
                         [] ordering = "-feed_type" -> SortedByFeedType(json_list, TRUE)
                         [] OTHER -> <<>>
    IN IF sorted_list # <<>> THEN sorted_list ELSE json_list

----------------------------------------------------------------------------
(* The request handlers *)

NoResponse == [status |-> "none", content_type |-> "none", body |-> <<>>]

\* A view receives a request and builds its FeedRequestParams
StartRequest(qp, addr) ==
    /\ pc \in {"idle", "done"}
    /\ served < MaxRequests
    /\ query_params' = qp
    /\ feed_params' = FeedRequestParams(qp)
    /\ remote_addr' = addr
    /\ legacy_age' = "none"
    /\ valid_feed_types' = {}
    /\ order_by_arg' = "none"
    /\ iocs' = <<>>
    /\ save_failed' = FALSE
    /\ verbose' = FALSE
    /\ validated' = <<>>
    /\ response' = NoResponse
    /\ served' = served + 1
    /\ pc' = "params"
    /\ UNCHANGED <<iocStore, SKIP_FEED_VALIDATION, statistics>>

\* The legacy view calls feed_params.set_legacy_age(age)
SetLegacyAge ==
    /\ pc = "params"
    /\ legacy_age = "none"
    /\ \E age \in {"recent", "persistent", "yesterday"} :
          /\ legacy_age' = age
          /\ feed_params' = set_legacy_age(feed_params, age)
    /\ UNCHANGED <<iocStore, SKIP_FEED_VALIDATION, pc, query_params, valid_feed_types,
                   remote_addr, order_by_arg, iocs, statistics, save_failed, verbose,
                   validated, response, served>>

\* the row built and never saved
SaveStatisticsUnsaved(rows, source_ip) == rows

\* Statistics(source=source_ip).save()
SaveStatistics(rows, source_ip) == Append(rows, [source |-> source_ip])

\* get_queryset(request, feed_params, get_valid_feed_types()).  The statistics
\* write may fail; nothing catches what it raises.  order_by rejects a name that
\* is no field of the IOC model.
GetQueryset ==
    /\ pc = "params"
    /\ valid_feed_types' = get_valid_feed_types
    /\ \E save_ok \in BOOLEAN :
       IF ~FeedsRequestSerializerValid(feed_params, get_valid_feed_types)
       THEN /\ response' = [status |-> "RequestValidationError", content_type |-> "none", body |-> <<>>]
            /\ pc' = "done"
            /\ UNCHANGED <<order_by_arg, iocs, statistics, save_failed>>
       ELSE /\ order_by_arg' = feed_params.ordering
            /\ IF OrderingField(feed_params.ordering) \notin IOCOrderFields
               THEN /\ response' = [status |-> "FieldError", content_type |-> "none", body |-> <<>>]
                    /\ pc' = "done"
                    /\ UNCHANGED <<iocs, statistics, save_failed>>
               ELSE IF ~save_ok
               THEN /\ response' = [status |-> "SaveError", content_type |-> "none", body |-> <<>>]
                    /\ save_failed' = TRUE
                    /\ pc' = "done"
                    /\ UNCHANGED <<iocs, statistics>>
               ELSE /\ \E cursor \in OrderBy(QueryRows(iocStore, feed_params), feed_params.ordering) :
                          iocs' = Slice(cursor, int(feed_params.feed_size))
                    /\ statistics' = SaveStatistics(statistics, remote_addr)
                    /\ pc' = "queryset"
                    /\ UNCHANGED <<response, save_failed>>
    /\ UNCHANGED <<iocStore, SKIP_FEED_VALIDATION, query_params, feed_params, legacy_age,
                   remote_addr, verbose, validated, served>>

\* the value feeds_response returns, with the items it validated on the way
FeedsResponseResult(cursor, fp, valid_types, skip, verb) ==
    CASE fp.format = "txt" ->
            [status |-> "200", content_type |-> "text/plain", body |-> TxtBody(cursor),
             validated |-> <<>>]
      [] fp.format = "csv" ->
            [status |-> "200", content_type |-> "text/csv", body |-> CsvBody(cursor),
             validated |-> <<>>]
      [] fp.format = "json" ->
            LET loop == RenderLoop(cursor, 1, fp, valid_types, skip, verb,
                                   [json_list |-> <<>>, validated |-> <<>>])
            IN IF loop.status = "ok"
               THEN [status |-> "200", content_type |-> "application/json",
                     body |-> [license |-> FEEDS_LICENSE,
                               iocs |-> FinalList(loop.json_list, fp.ordering)],
                     validated |-> loop.validated]
               ELSE [status |-> loop.status, content_type |-> "none", body |-> <<>>,
                     validated |-> loop.validated]

\* feeds_response(iocs, feed_params, valid_feed_types, verbose=...)
FeedsResponse ==
    /\ pc = "queryset"
    /\ \E verb \in BOOLEAN :
          LET r == FeedsResponseResult(iocs, feed_params, valid_feed_types,
                                       SKIP_FEED_VALIDATION, verb)
          IN /\ verbose' = verb
             /\ response' = [status |-> r.status, content_type |-> r.content_type, body |-> r.body]
             /\ validated' = r.validated
    /\ pc' = "done"
    /\ UNCHANGED <<iocStore, SKIP_FEED_VALIDATION, query_params, feed_params, legacy_age,
                   valid_feed_types, remote_addr, order_by_arg, iocs, statistics,
                   save_failed, served>>

----------------------------------------------------------------------------
(* Requests and stores *)

EmptyDict == [k \in {} |-> k]

\* a dict entry, or none when the value is the marker of an absent key
Entry(key, value, absent) == IF value = absent THEN EmptyDict ELSE (key :> value)

Absent == "(absent)"
AbsentSeq == <<"(absent)">>

MkQuery(feed_type, attack_type, max_age, min_days_seen, inc, exc, feed_size, ordering, format) ==
    Entry("feed_type", feed_type, Absent) @@ Entry("attack_type", attack_type, Absent)
    @@ Entry("max_age", max_age, AbsentSeq) @@ Entry("min_days_seen", min_days_seen, AbsentSeq)
    @@ Entry("include_reputation", inc, AbsentSeq) @@ Entry("exclude_reputation", exc, AbsentSeq)
    @@ Entry("feed_size", feed_size, AbsentSeq) @@ Entry("ordering", ordering, Absent)
    @@ Entry("format_", format, Absent)

Stores == {s \in SUBSET IOCIds : Cardinality(s) <= MaxStore}

InitWith(stores, skips) ==
    /\ iocStore \in stores
    /\ SKIP_FEED_VALIDATION \in skips
    /\ pc = "idle"
    /\ query_params = EmptyDict
    /\ feed_params = FeedRequestParams(EmptyDict)
    /\ legacy_age = "none"
    /\ valid_feed_types = {}
    /\ remote_addr = "none"
    /\ order_by_arg = "none"
    /\ iocs = <<>>
    /\ statistics = <<>>
    /\ save_failed = FALSE
    /\ verbose = FALSE
    /\ validated = <<>>
    /\ response = NoResponse
    /\ served = 0

(* Parameter normalisation: every raw reputation string up to MaxLen *)

ParamQueries ==
    {MkQuery(Absent, Absent, max_age, min_days, inc, exc, AbsentSeq, ordering, Absent) :
        max_age \in {AbsentSeq, <<"7">>},
        min_days \in {AbsentSeq, <<"1">>, <<"1", "0">>, <<"5">>},
        inc \in {AbsentSeq} \cup SeqsUpTo(MaxLen),
        exc \in {AbsentSeq, <<>>, <<"a", ";", "b">>},
        ordering \in {Absent, "Feed_Type", "-feed_type", "Value", "attack_count"}}

ParamsRequest == served = 0 /\ \E qp \in ParamQueries : StartRequest(qp, "192.0.2.1")

InitParams == InitWith({{}}, {FALSE})

NextParams == ParamsRequest \/ SetLegacyAge

SpecParams == InitParams /\ [][NextParams]_vars

(* Filtering: every store of at most MaxStore rows, the filter parameters *)

FilterQueries ==
    {MkQuery(Absent, Absent, max_age, min_days, inc, exc, feed_size, ordering, "TXT") :
        max_age \in {AbsentSeq, <<"1", "4">>},
        min_days \in {AbsentSeq, <<"1", "0">>},
        inc \in {AbsentSeq, <<>>, <<"a">>, <<"a", ";">>},
        exc \in {AbsentSeq, <<>>, <<"b">>},
        feed_size \in {AbsentSeq, <<"1">>, <<"2">>},
        ordering \in {Absent, "attack_count"}}
    \cup
    {MkQuery(feed_type, attack_type, max_age, AbsentSeq, AbsentSeq, AbsentSeq, AbsentSeq, Absent, "csv") :
        feed_type \in {"ALL", "Log4j", "cowrie", "Heralding", "dionaea", "ciscoasa"},
        attack_type \in {Absent, "scanner", "payload_request"},
        max_age \in {AbsentSeq, <<"1", "4">>}}

FilterRequest == served = 0 /\ \E qp \in FilterQueries : StartRequest(qp, "192.0.2.1")

InitFilter == InitWith(Stores, {FALSE})

NextFilter == FilterRequest \/ GetQueryset \/ FeedsResponse

SpecFilter == InitFilter /\ [][NextFilter]_vars

(* Rendering: every store of at most MaxStore rows, the rendering parameters *)

RenderQueries ==
    {MkQuery(feed_type, Absent, <<"1", "4">>, AbsentSeq, AbsentSeq, AbsentSeq, AbsentSeq, ordering, format) :
        feed_type \in {Absent, "Cowrie", "log4j", "heralding"},
        ordering \in {Absent, "Feed_Type", "-feed_type", "attack_count"},
        format \in {Absent, "TXT", "csv"}}

RenderRequest == served = 0 /\ \E qp \in RenderQueries : StartRequest(qp, "192.0.2.1")

InitRender == InitWith(Stores, BOOLEAN)

NextRender == RenderRequest \/ GetQueryset \/ FeedsResponse

SpecRender == InitRender /\ [][NextRender]_vars

(* Statistics: sequences of at most MaxRequests requests from two callers *)

StatsQueries ==
    {MkQuery(feed_type, Absent, AbsentSeq, AbsentSeq, AbsentSeq, AbsentSeq, AbsentSeq, ordering, format) :
        feed_type \in {Absent, "ciscoasa"},
        ordering \in {Absent, "feed_type"},
        format \in {Absent, "xml"}}

StatsRequest == \E qp \in StatsQueries, addr \in {"192.0.2.1", "198.51.100.7"} : StartRequest(qp, addr)

InitStats == InitWith({{}, {1, 2}}, {FALSE})

NextStats == StatsRequest \/ SetLegacyAge \/ GetQueryset \/ FeedsResponse

SpecStats == InitStats /\ [][NextStats]_vars

----------------------------------------------------------------------------
(* Properties of the parameter normaliser *)

\* C5 (as stated): after set_legacy_age("persistent"), max_age is "14" and
\* min_days_seen is "10", whatever the request supplied.
C5_PersistentForcesBoth ==
    legacy_age = "persistent" =>
        /\ feed_params.max_age = <<"1", "4">>
        /\ feed_params.min_days_seen = <<"1", "0">>

ReputationKeys == {"include_reputation", "exclude_reputation"}

\* C7 (as stated): FeedRequestParams never produces the one-element list [""]
\* for include_reputation or exclude_reputation.
C7_NeverListOfEmptyString ==
    pc = "params" => \A key \in ReputationKeys : feed_params[key] # <<(<<>>)>>

CountOf(s, c) == Cardinality({k \in 1..Len(s) : s[k] = c})

RECURSIVE JoinWith(_, _)
JoinWith(pieces, sep) ==
    IF Len(pieces) = 1 THEN pieces[1]
    ELSE pieces[1] \o <<sep>> \o JoinWith(Tail(pieces), sep)

\* C7 (amended): an absent key yields the empty list; a present value yields its
\* pieces between the ';' separators: one more piece than it has separators, none
\* holding a ';', joining back to the value.  So the empty string, and only the
\* empty string, yields [""].
C7_SplitOnSemicolon ==
    pc = "params" =>
        \A key \in ReputationKeys :
            IF key \notin DOMAIN query_params
            THEN feed_params[key] = <<>>
            ELSE LET raw == query_params[key]
                     pieces == feed_params[key]
                 IN /\ Len(pieces) = CountOf(raw, ";") + 1
                    /\ \A k \in 1..Len(pieces) : CountOf(pieces[k], ";") = 0
                    /\ JoinWith(pieces, ";") = raw
                    /\ (pieces = <<(<<>>)>> <=> raw = <<>>)

\* C7 witness: include_reputation is present and empty, and the list is [""]
C7_EmptyValueSeen ==
    /\ pc = "params"
    /\ "include_reputation" \in DOMAIN query_params
    /\ query_params["include_reputation"] = <<>>
    /\ feed_params.include_reputation = <<(<<>>)>>

----------------------------------------------------------------------------
(* Properties of get_queryset *)

CursorReturned == pc = "queryset" \/ (pc = "done" /\ response.status = "200")

AllAll == feed_params.feed_type = "all" /\ feed_params.attack_type = "all"

\* the records the age, day-count and reputation parameters admit
Admitted ==
    {i \in iocStore :
        /\ IOCTable[i].last_seen >= utcnow - int(feed_params.max_age)
        /\ IOCTable[i].number_of_days_seen >= int(feed_params.min_days_seen)
        /\ (feed_params.include_reputation # <<>>
               => \E k \in 1..Len(feed_params.include_reputation) :
                     feed_params.include_reputation[k] = IOCTable[i].ip_reputation)
        /\ \A k \in 1..Len(feed_params.exclude_reputation) :
              feed_params.exclude_reputation[k] # IOCTable[i].ip_reputation}

AllMembershipsActive(i) ==
    \A k \in 1..Len(IOCTable[i].general_honeypot) :
        \E h \in 1..Len(GeneralHoneypot) :
            /\ GeneralHoneypot[h].name = IOCTable[i].general_honeypot[k]
            /\ GeneralHoneypot[h].active

Min(a, b) == IF a < b THEN a ELSE b

MatchesActively(i) ==
    CASE feed_params.feed_type = "all" ->
            \/ IOCTable[i].log4j
            \/ IOCTable[i].cowrie
            \/ \E k \in 1..Len(IOCTable[i].general_honeypot) :
                  HoneypotActive(IOCTable[i].general_honeypot[k])
      [] feed_params.feed_type = "log4j" -> IOCTable[i].log4j
      [] feed_params.feed_type = "cowrie" -> IOCTable[i].cowrie
      [] OTHER ->
            \E k \in 1..Len(IOCTable[i].general_honeypot) :
                /\ Lower(IOCTable[i].general_honeypot[k]) = feed_params.feed_type
                /\ HoneypotActive(IOCTable[i].general_honeypot[k])

HasInactiveMembership(i) == ~AllMembershipsActive(i)

\* C2 (as stated): a record that passes every filter of the request is left out
\* for honeypot inactivity exactly when an inactive membership is its sole
\* feed-type match; with a true built-in flag or an active matching membership
\* it is returned.
C2_ExcludedOnlyWhenSoleMatch ==
    (pc = "queryset" /\ int(feed_params.feed_size) >= Cardinality(iocStore)) =>
        \A i \in iocStore :
            (/\ FeedTypeFilter(i, feed_params)
             /\ AttackTypeFilter(i, feed_params)
             /\ i \in Admitted)
            => (i \notin Range(iocs) <=> (HasInactiveMembership(i) /\ ~MatchesActively(i)))

----------------------------------------------------------------------------
(* Properties of the statistics write *)

\* C6 (as stated): a failure of Statistics.save does not abort or alter the
\* response: the cursor is returned and the feed rendered all the same.
C6_SaveFailureHarmless ==
    (pc = "done" /\ save_failed) =>
        /\ response.status = "200"
        /\ \E cursor \in OrderBy(QueryRows(iocStore, feed_params), feed_params.ordering) :
              iocs = Slice(cursor, int(feed_params.feed_size))

RequestValid == FeedsRequestSerializerValid(feed_params, get_valid_feed_types)

IsPrefix(s, t) == Len(s) <= Len(t) /\ SubSeq(t, 1, Len(s)) = s

----------------------------------------------------------------------------
(* Properties of feeds_response *)

\* feeds_response ran: get_queryset returned a cursor and the response is in
Rendered == pc = "done" /\ response.status \in {"200", "IndexError", "ItemValidationError"}

JsonFeed == Rendered /\ feed_params.format = "json" /\ response.status = "200"

\* the stored record a rendered item was made from
RecordOf(item) == CHOOSE i \in IOCIds : IOCTable[i].name = item.value

\* C3 (as stated): the label of a rendered item is the requested feed_type when
\* that is anything but "all" (log4j and cowrie included); otherwise log4j
\* before cowrie before the lower-cased name of the first membership.
C3_RequestedTypeIsLabel ==
    JsonFeed =>
        \A k \in 1..Len(response.body.iocs) :
            LET item == response.body.iocs[k]
                ioc == IOCTable[RecordOf(item)]
            IN item.feed_type =
                  IF feed_params.feed_type # "all" THEN feed_params.feed_type
                  ELSE IF ioc.log4j THEN "log4j"
                  ELSE IF ioc.cowrie THEN "cowrie"
                  ELSE Lower(ioc.general_honeypot[1])

\* C3 (amended): the label of a rendered item is the requested feed_type when
\* that is none of "all", "log4j" and "cowrie"; otherwise (also for a "log4j" or
\* "cowrie" request) it is log4j if the log4j flag is true, else cowrie if the
\* cowrie flag is true, else the lower-cased name of the first membership.
C3_LabelPrecedence ==
    JsonFeed =>
        \A k \in 1..Len(response.body.iocs) :
            LET item == response.body.iocs[k]
                ioc == IOCTable[RecordOf(item)]
            IN item.feed_type =
                  IF feed_params.feed_type \notin {"all", "log4j", "cowrie"}
                  THEN feed_params.feed_type
                  ELSE IF ioc.log4j THEN "log4j"
                  ELSE IF ioc.cowrie THEN "cowrie"
                  ELSE Lower(ioc.general_honeypot[1])

\* C3 witness: a "cowrie" feed holds a record with both flags, labelled log4j,
\* beside a record labelled cowrie
C3_CowrieFeedSeen ==
    /\ JsonFeed
    /\ feed_params.feed_type = "cowrie"
    /\ \E k \in 1..Len(response.body.iocs) :
          /\ response.body.iocs[k].feed_type = "log4j"
          /\ IOCTable[RecordOf(response.body.iocs[k])].cowrie
    /\ \E k \in 1..Len(response.body.iocs) : response.body.iocs[k].feed_type = "cowrie"

FeedTypeOrderings == {"feed_type", "-feed_type"}

\* C4 (as stated): for a JSON request ordered by feed_type the store is not asked
\* to sort on feed_type, the request completes, and the iocs list is the fetched
\* items sorted by label (ascending, or descending for "-feed_type"), none
\* dropped or duplicated.
C4_FeedTypeOrderingDeferred ==
    (/\ pc = "done"
     /\ feed_params.format = "json"
     /\ feed_params.ordering \in FeedTypeOrderings
     /\ RequestValid
     /\ ~save_failed)
    => /\ order_by_arg \notin FeedTypeOrderings
       /\ Rendered
       /\ response.status = "200" =>
             LET list == response.body.iocs
             IN /\ Len(list) = Len(iocs)
                /\ {list[k].value : k \in 1..Len(list)} = {IOCTable[i].name : i \in Range(iocs)}
                /\ \A a, b \in 1..Len(list) :
                      a < b => IF feed_params.ordering = "feed_type"
                               THEN LabelRank(list[a].feed_type) <= LabelRank(list[b].feed_type)
                               ELSE LabelRank(list[a].feed_type) >= LabelRank(list[b].feed_type)

\* C8: for txt and csv the response is the license text followed by one line or
\* row per record of the cursor, in cursor order, holding that record's value
\* alone; nothing is classified or validated, so every cursor renders.
C8_TextAndCsvBodies ==
    (/\ pc = "done"
     /\ feed_params.format \in {"txt", "csv"}
     /\ response.status \notin {"RequestValidationError", "FieldError", "SaveError"})
    => /\ response.status = "200"
       /\ validated = <<>>
       /\ IF feed_params.format = "txt"
          THEN /\ response.content_type = "text/plain"
               /\ Len(response.body) = 2 * Len(iocs) + 1
               /\ response.body[1] = license_text
               /\ \A k \in 1..Len(iocs) :
                     /\ response.body[2 * k] = "\n"
                     /\ response.body[2 * k + 1] = IOCTable[iocs[k]].name
          ELSE /\ response.content_type = "text/csv"
               /\ Len(response.body) = Len(iocs) + 1
               /\ response.body[1] = <<license_text, "\r\n">>
               /\ \A k \in 1..Len(iocs) :
                     response.body[k + 1] = <<IOCTable[iocs[k]].name, "\r\n">>

\* C8 witness: a csv feed of at least two records, one with no flag and no membership
C8_UnclassifiableRendered ==
    /\ pc = "done" /\ response.status = "200" /\ feed_params.format = "csv"
    /\ Len(iocs) >= 2
    /\ \E k \in 1..Len(iocs) :
          /\ ~IOCTable[iocs[k]].log4j /\ ~IOCTable[iocs[k]].cowrie
          /\ IOCTable[iocs[k]].general_honeypot = <<>>

ItemOf(k) == RenderItem(iocs[k], feed_params, verbose)

====
